---- MODULE Spec2Model ----
(***************************************************************************)
(* Frauditor content script: the review-list pipeline of                   *)
(* frontend/content.js (first variant, lines 1-276; the annotator and the  *)
(* response listener of the second variant, lines 278-529), the harvester  *)
(* and the purchase-metadata extraction of frontend/utils.js, and the      *)
(* background relay (unnamed/part_002); the processComments variant of     *)
(* unnamed/part_004, the auto-crawl variant of getReviews                  *)
(* (backend/docker-entry.sh, lines 19-182) and the popup script            *)
(* (frontend/popup/popup.js).                                              *)
(*                                                                         *)
(* The browser runs one task at a time.  Every action below is one task of *)
(* the page's event loop together with the microtasks it spawns: a host    *)
(* script that touches the DOM (followed by the MutationObserver callbacks *)
(* it causes), an IntersectionObserver callback, a timer callback, a       *)
(* message delivery, or one step of the background service worker.         *)
(***************************************************************************)
EXTENDS Integers, Sequences, FiniteSets, TLC

\* ---------------------------------------------------------------- bounds
MaxItems == 2        \* review items rendered on one page
MaxPages == 2        \* rendered sets shown during one page load
MaxObservers == 2    \* non-1 style mutations the host makes in one fade
MaxSubs == 2         \* submissions recorded for one rendered set
MaxHarvestItems == 4 \* review items of the page in the single-page harvest runs
MaxTextLen == 3      \* characters of one child's text in the purchase-metadata node

\* ------------------------------------------------------------ DOM shapes
\* What utils.js and content.js can tell apart in one child of the list:
\*   ok        childNodes[1] holds the purchaser-info structure
\*   noMain    the child has no childNodes[1]
\*   emptyMain childNodes[1] exists but has no children (lastChild is null)
\*   noInfo    childNodes[1] has children but no purchaser-info structure
Shapes == {"ok", "noMain", "emptyMain", "noInfo"}
Classes == {"A", "B"}
NoClass == "null"
Items == [shape : Shapes, cls : Classes]
Opacities == {"1", "0.5", "0.3"}
Predictions == {"REAL", "FAKE"}

RECURSIVE SeqsUpTo(_, _)
SeqsUpTo(S, n) ==
    IF n = 0 THEN {<<>>}
    ELSE LET shorter == SeqsUpTo(S, n - 1)
         IN  shorter \cup {Append(s, x) : s \in {t \in shorter : Len(t) = n - 1}, x \in S}

\* The rendered sets the host page can show: at least one item.
Pages == {p \in SeqsUpTo(Items, MaxItems) : Len(p) >= 1}

\* Badge b{i} of one child: st is the state class of the element that
\* document.getElementById returns ("none": no such element), label its text,
\* n the number of elements with that id, sgen/spos the rendered set and the
\* child whose record a shown result was computed from.
NoBadge == [st |-> "none", sgen |-> 0, spos |-> 0, n |-> 0, label |-> ""]
LoadingBadge == [st |-> "loading", sgen |-> 0, spos |-> 0, n |-> 1,
                 label |-> "Analyzing review..."]
ErrorBadge == [st |-> "error", sgen |-> 0, spos |-> 0, n |-> 1,
               label |-> "Analysis failed"]
FreshBadges(p) == [i \in 1..Len(p) |-> NoBadge]

VARIABLES
    attached,     \* .shopee-product-comment-list is in the document
    bodyObs,      \* the DOM-attachment observer is connected
    armed,        \* observeElement has run: io and ratingsObserver installed
    ioLast,       \* intersection state last reported to io ("none" before the first report)
    opacity,      \* style.opacity of .product-ratings__list
    swapped,      \* the host has replaced the items during the current fade
    cos,          \* connected completionObservers
    timers,       \* pending 200ms settle timers
    gen,          \* number of the rendered set (0: none yet)
    items,        \* childNodes of the comment list
    badges,       \* badge b{i} of each child
    commonClass,  \* utils.js global
    cycles,       \* submissions whose sendMessage promise is pending
    subs,         \* history: submissions sent per rendered set
    ended,        \* history: how the harvest-and-submit cycle of each rendered set ended
    last,         \* history: outcome of the latest processComments call since the rendered
                  \*          set was replaced or a submission was answered ("none" if none)
    settled,      \* history: timers scheduled by the latest return to opacity 1 on the current set
    seen,         \* history: io has reported the container as intersecting at least once
    infoNodes,    \* extraction runs: the purchase-metadata node of each rendered item
    records,      \* extraction runs: what getReviews returned (status "none" before the call)
    installs,     \* history: number of times observeElement has run
    lastBatch,    \* batched runs: the style mutation records delivered last
    crawl,        \* auto-crawl runs: state of the auto-crawl variant of getReviews
    popup,        \* popup runs: state of the popup script and chrome.storage.local
    tabs          \* multi-tab runs: the tabs of the window and the relay's batches

vars == <<attached, bodyObs, armed, ioLast, opacity, swapped, cos, timers,
          gen, items, badges, commonClass, cycles, subs, ended, last, settled,
          seen, infoNodes, records, installs, lastBatch, crawl, popup, tabs>>

Gens == 1..MaxPages


\* ------------------------------------------------ content.js: the annotator
\* Mutant of InjectLoading: the loading badge is built but never appended.
InjectLoadingDetached(b) == b

\* Mutant of InjectLoading: no getElementById check, a loading badge is
\* appended on every call.
InjectLoadingAppends(b) == IF b.n = 0 THEN LoadingBadge ELSE [b EXCEPT !.n = @ + 1]

\* injectIntoTarget(target, "loading...", `b${i+1}`): an element with that id
\* already in the document is left alone, otherwise a loading badge is appended.
InjectLoading(b) == IF b.n > 0 THEN b ELSE LoadingBadge

\* injectIntoTarget(target, message, `b${i+1}`, true, details): the existing
\* badge element (if any) gets the result content and class.
InjectResult(b, prediction, g, pos) ==
    IF b.n = 0 THEN b
    ELSE [b EXCEPT !.st = IF prediction = "REAL" THEN "nfraud" ELSE "yfraud",
                   !.sgen = g, !.spos = pos, !.label = prediction]

\* What the classifier may put into the `prediction` field (strings without
\* a comma or surrounding blanks, so that the message the listener formats
\* and injectIntoTarget splits again yields the same prediction).
PredictionValues == {"REAL", "FAKE", "real", "UNKNOWN"}

\* prediction.trim().toUpperCase() on those values.
ToUpperCase(prediction) ==
    CASE prediction = "real" -> "REAL"
      [] OTHER -> prediction

\* Second variant of injectIntoTarget (lines 357-392) with hasExistingDiv:
\* statusType is real, fake or unknown, and an unknown status leaves the badge
\* with className "injected-class" alone, without a state class.
InjectResultV2(b, prediction, g, pos) ==
    IF b.n = 0 THEN b
    ELSE [b EXCEPT !.st = CASE ToUpperCase(prediction) = "REAL" -> "nfraud"
                            [] ToUpperCase(prediction) = "FAKE" -> "yfraud"
                            [] OTHER -> "noStateClass",
                   !.sgen = g, !.spos = pos, !.label = prediction]

\* ---------------------------------------------- content.js: processComments
\* Mutant of BadgeLoop: the guard looks at firstChild instead of lastChild,
\* so it never sees a badge.
RECURSIVE BadgeLoopFirstChild(_, _, _, _)
BadgeLoopFirstChild(its, bs, i, same) ==
    IF i > Len(its) THEN [badges |-> bs, same |-> same, threw |-> FALSE]
    ELSE IF its[i].shape = "noMain" THEN BadgeLoopFirstChild(its, bs, i + 1, same)
    ELSE IF its[i].shape = "emptyMain" /\ bs[i].st = "none"
         THEN [badges |-> bs, same |-> same, threw |-> TRUE]
    ELSE BadgeLoopFirstChild(its, [bs EXCEPT ![i] = IF bs[i].st # "none" THEN bs[i] ELSE LoadingBadge],
                             i + 1, same)

\* The badge loop over target.childNodes.  A child without childNodes[1] is
\* skipped; injectionTarget.lastChild is null for an empty childNodes[1], so
\* reading its classList throws and ends processComments; a badge is always
\* the last child of its injection target.
RECURSIVE BadgeLoop(_, _, _, _)
BadgeLoop(its, bs, i, same) ==
    IF i > Len(its) THEN [badges |-> bs, same |-> same, threw |-> FALSE]
    ELSE IF its[i].shape = "noMain" THEN BadgeLoop(its, bs, i + 1, same)
    ELSE IF its[i].shape = "emptyMain" /\ bs[i].st = "none"
         THEN [badges |-> bs, same |-> same, threw |-> TRUE]
    ELSE BadgeLoop(its, [bs EXCEPT ![i] = InjectLoading(bs[i])], i + 1,
                   same \/ bs[i].n > 0)

\* Mutant of ErrorLoop: the catch block removes the badges instead of
\* turning them into error badges.
ErrorLoopRemoves(its, bs) ==
    [i \in 1..Len(its) |->
        IF its[i].shape # "noMain" /\ bs[i].st # "none" THEN NoBadge ELSE bs[i]]

\* The catch block: every existing badge of a child with childNodes[1]
\* becomes an error badge.
ErrorLoop(its, bs) ==
    [i \in 1..Len(its) |->
        IF its[i].shape # "noMain" /\ bs[i].n > 0
           THEN [ErrorBadge EXCEPT !.n = bs[i].n] ELSE bs[i]]

\* ------------------------------------------------------- utils.js: harvest
\* detectCommonClass: the class of the list's first child.
DetectCommonClass(its, cc) == IF Len(its) >= 1 THEN its[1].cls ELSE cc

\* document.querySelectorAll(`.${commonClass}`): the positions, in document
\* order, of the children carrying the class.
RECURSIVE QuerySelectorAll(_, _, _)
QuerySelectorAll(its, cc, i) ==
    IF i > Len(its) THEN <<>>
    ELSE IF its[i].cls = cc THEN <<i>> \o QuerySelectorAll(its, cc, i + 1)
    ELSE QuerySelectorAll(its, cc, i + 1)

\* The key written by final[`review ${i + 1}`] for the 0-based loop index i.
ReviewKey(i) == i + 1

\* The for loop of getReviews over reviewsParent (0-based i, as in the code).
\* Any shape other than "ok" makes a positional access throw, which ends the
\* whole call; otherwise the record of that element is stored under its key.
\* A record is represented by the position of the element it was read from.
RECURSIVE ReviewsLoop(_, _, _, _)
ReviewsLoop(its, parent, i, final) ==
    IF i >= Len(parent) THEN [ok |-> TRUE, final |-> final]
    ELSE IF its[parent[i + 1]].shape # "ok" THEN [ok |-> FALSE, final |-> final]
    ELSE ReviewsLoop(its, parent, i + 1,
             [k \in DOMAIN final \cup {ReviewKey(i)} |->
                 IF k = ReviewKey(i) THEN parent[i + 1] ELSE final[k]])

EmptyFinal == [k \in {} |-> 0]

getReviews(its, cc) == ReviewsLoop(its, QuerySelectorAll(its, cc, 1), 0, EmptyFinal)

\* Mutant of processComments: the variant without the sameComments guard
\* (the badge loop is followed by the harvest unconditionally).
processCommentsNoGuard(its, bs, cc) ==
    LET loop == BadgeLoop(its, bs, 1, FALSE)
        cc2 == DetectCommonClass(its, cc)
        got == getReviews(its, cc2)
    IN  IF loop.threw
          THEN [outcome |-> "threw", badges |-> loop.badges, cc |-> cc, data |-> EmptyFinal]
        ELSE IF ~got.ok
          THEN [outcome |-> "harvestFailed", badges |-> ErrorLoop(its, loop.badges),
                cc |-> cc2, data |-> EmptyFinal]
        ELSE [outcome |-> "submitted", badges |-> loop.badges, cc |-> cc2, data |-> got.final]

\* One call of processComments up to its first real suspension (the pending
\* sendMessage): what it leaves behind.
\*   threw        the badge loop threw
\*   suppressed   sameComments: return without harvesting
\*   harvestFailed getReviews threw; the catch block ran
\*   submitted    the batch was handed to chrome.runtime.sendMessage
processComments(its, bs, cc) ==
    LET loop == BadgeLoop(its, bs, 1, FALSE)
        cc2 == DetectCommonClass(its, cc)
        got == getReviews(its, cc2)
    IN  IF loop.threw
          THEN [outcome |-> "threw", badges |-> loop.badges, cc |-> cc, data |-> EmptyFinal]
        ELSE IF loop.same
          THEN [outcome |-> "suppressed", badges |-> loop.badges, cc |-> cc, data |-> EmptyFinal]
        ELSE IF ~got.ok
          THEN [outcome |-> "harvestFailed", badges |-> ErrorLoop(its, loop.badges),
                cc |-> cc2, data |-> EmptyFinal]
        ELSE [outcome |-> "submitted", badges |-> loop.badges, cc |-> cc2, data |-> got.final]

\* part_004 lines 91-133: the variant of processComments whose try block
\* starts with getReviews(); detectCommonClass is not called, so the harvest
\* selects with the commonClass the module already holds.
processCommentsNoDetect(its, bs, cc) ==
    LET loop == BadgeLoop(its, bs, 1, FALSE)
        got == getReviews(its, cc)
    IN  IF loop.threw
          THEN [outcome |-> "threw", badges |-> loop.badges, cc |-> cc, data |-> EmptyFinal]
        ELSE IF loop.same
          THEN [outcome |-> "suppressed", badges |-> loop.badges, cc |-> cc, data |-> EmptyFinal]
        ELSE IF ~got.ok
          THEN [outcome |-> "harvestFailed", badges |-> ErrorLoop(its, loop.badges),
                cc |-> cc, data |-> EmptyFinal]
        ELSE [outcome |-> "submitted", badges |-> loop.badges, cc |-> cc, data |-> got.final]

\* ------------------------------------- utils.js: purchase-metadata extraction
\* A text is a sequence of characters; "|" is the delimiter and " " a blank.
\* The long strings are the words of the end-to-end example, each standing
\* for a run of characters without a delimiter and without outer blanks.
Chars == {"a", "b", " ", "|"}
Texts == SeqsUpTo(Chars, MaxTextLen)

\* The positions of "|" in a text.
Pipes(t) == {k \in 1..Len(t) : t[k] = "|"}
FirstPipe(t) == CHOOSE k \in Pipes(t) : \A j \in Pipes(t) : k <= j

\* String.prototype.split("|"): the pieces between the delimiters, "" for an
\* empty piece; a text without delimiter is its own single piece.
RECURSIVE Split(_)
Split(t) ==
    IF Pipes(t) = {} THEN <<t>>
    ELSE <<SubSeq(t, 1, FirstPipe(t) - 1)>> \o Split(SubSeq(t, FirstPipe(t) + 1, Len(t)))

\* Mutant of Trim: the pieces are stored as they are.
TrimNothing(t) == t

\* String.prototype.trim(): blanks are removed at both ends.
RECURSIVE Trim(_)
Trim(t) ==
    IF t = <<>> THEN t
    ELSE IF Head(t) = " " THEN Trim(Tail(t))
    ELSE IF t[Len(t)] = " " THEN Trim(SubSeq(t, 1, Len(t) - 1))
    ELSE t

\* itemPurchaseInformationType (lines 29-39) for the child texts of the
\* purchase-metadata node; with no child at all, reading
\* itemPurchaseInformationContainer[0].textContent throws.
PurchaseInformationType(container) ==
    IF Len(container) > 1 THEN "location"
    ELSE IF Len(container) = 0 THEN "throws"
    ELSE IF Len(Split(container[1])) > 1 THEN "variation"
    ELSE "dateonly"

\* Mutant of LocationText: the location branch reads the first child.
LocationTextFirstChild(container) == container[1]

\* The text the location branch splits: itemPurchaseInformationContainer[1],
\* the second child.
LocationText(container) == container[2]

\* Mutant of LocationFields: item_variation is filled as in the variation
\* branch.
LocationFieldsWithVariation(info) ==
    [type |-> "location", purchase_date |-> Trim(info[2]),
     item_variation |-> Trim(info[2]), location |-> Trim(info[1])]

\* Lines 49-52: the fields of the location branch from the split text.
LocationFields(info) ==
    [type |-> "location", purchase_date |-> Trim(info[2]),
     item_variation |-> <<>>, location |-> Trim(info[1])]

\* Lines 45-48: the fields of the variation branch.
VariationFields(info) ==
    [type |-> "variation", purchase_date |-> Trim(info[1]),
     item_variation |-> Trim(info[2]), location |-> <<>>]

\* Lines 53-56: the fields of the date-only branch.
DateOnlyFields(text) ==
    [type |-> "dateonly", purchase_date |-> Trim(text),
     item_variation |-> <<>>, location |-> <<>>]

ExtractionThrew == [type |-> "throws"]

\* Lines 28-56 for one item: the purchase fields of its record, or a throw
\* (no child, or a location text without "|": info[1] is undefined and
\* undefined.trim() throws).
PurchaseInfo(container) ==
    LET type == PurchaseInformationType(container)
    IN  CASE type = "variation" -> VariationFields(Split(container[1]))
          [] type = "location" ->
                IF Len(Split(LocationText(container))) < 2 THEN ExtractionThrew
                ELSE LocationFields(Split(LocationText(container)))
          [] type = "dateonly" -> DateOnlyFields(container[1])
          [] OTHER -> ExtractionThrew

\* getReviews on items whose purchase-metadata nodes are nodes: the record
\* of every enumerated element under its key, or status "threw" when an
\* extraction throws.
getReviewsRecords(its, cc, nodes) ==
    LET got == getReviews(its, cc)
    IN  IF ~got.ok \/ \E k \in DOMAIN got.final : PurchaseInfo(nodes[got.final[k]]).type = "throws"
          THEN [status |-> "threw", final |-> <<>>]
        ELSE [status |-> "returned",
              final |-> [k \in DOMAIN got.final |-> PurchaseInfo(nodes[got.final[k]])]]

NoRecords == [status |-> "none", final |-> <<>>]

\* --------------------------------- utils.js: ratings and the review body
\* The children of the rating node (purchaserInfoNodes[1].childNodes[0]): an
\* SVG icon whose class holds SELECTORS.ratingIcon, an SVG icon whose class
\* does not, and a child that is no SVG element (its className has no
\* baseVal string, so the filter callback throws).
MaxStars == 6
FilledStar == "icon-rating-solid"
EmptyStar == "icon-rating"
NoSvg == "text"
StarMarks == {FilledStar, EmptyStar, NoSvg}
StarRows == SeqsUpTo(StarMarks, MaxStars)

RatingsThrew == -1

\* Lines 96-98: ratings.filter(className.baseVal.includes(ratingIcon)).length.
Ratings(stars) ==
    IF \E k \in 1..Len(stars) : stars[k] = NoSvg THEN RatingsThrew
    ELSE Cardinality({k \in 1..Len(stars) : stars[k] = FilledStar})

\* The texts of the children of the nested list: ":" is the delimiter.
MaxSubreviews == 2
SubChars == {"a", "b", ":"}
SubTexts == SeqsUpTo(SubChars, MaxTextLen)
BodyTexts == {<<>>, <<"a">>, <<"a", ":", "b">>}

\* The positions of ":" in a text.
Colons(t) == {k \in 1..Len(t) : t[k] = ":"}
FirstColon(t) == CHOOSE k \in Colons(t) : \A j \in Colons(t) : k <= j

\* String.prototype.split(":").
RECURSIVE SplitColon(_)
SplitColon(t) ==
    IF Colons(t) = {} THEN <<t>>
    ELSE <<SubSeq(t, 1, FirstColon(t) - 1)>> \o SplitColon(SubSeq(t, FirstColon(t) + 1, Len(t)))

\* The value of an array index past the end.
Undefined == <<"undefined">>

\* Lines 72-79: the entry of one child of the nested list, subreviewText[0]
\* and subreviewText[1] of its split text.
SubreviewEntry(text) ==
    LET subreviewText == SplitColon(text)
    IN  [category |-> subreviewText[1],
         content |-> IF Len(subreviewText) >= 2 THEN subreviewText[2] ELSE Undefined]

\* The content block of an item: absent, or the element of class
\* SELECTORS.reviewContent with its nested list (childNodes[0]) and its text
\* node (childNodes[1]).
\* The nested lists of the runs hold one child with any text, or up to
\* MaxSubreviews children with a text of at most one character.
NoBlock == [present |-> FALSE]
ShortSubTexts == {t \in SubTexts : Len(t) <= 1}
SubreviewLists == {<<t>> : t \in SubTexts} \cup SeqsUpTo(ShortSubTexts, MaxSubreviews)
Blocks ==
    {NoBlock} \cup
    {[present |-> TRUE, list |-> l, body |-> b] : l \in SubreviewLists, b \in BodyTexts}

\* Lines 58-85: subreview and reviewContent of one item; entry j of the
\* nested list is stored under `sub ${j}`, j counted from 0.
ReviewBody(block) ==
    IF ~block.present THEN [subreview |-> <<>>, review_content |-> <<>>]
    ELSE [subreview |-> [j \in 0..(Len(block.list) - 1) |-> SubreviewEntry(block.list[j + 1])],
          review_content |-> block.body]

\* Lines 95-105: the rating and body fields of the record of one item.
BodyRecord(node) ==
    [ratings |-> Ratings(node.stars),
     subreview |-> ReviewBody(node.block).subreview,
     review_content |-> ReviewBody(node.block).review_content]

\* getReviews on items whose rating nodes and content blocks are nodes: the
\* record of every enumerated element under its key, or status "threw" when
\* the filter callback throws.
getReviewsBodies(its, cc, nodes) ==
    LET got == getReviews(its, cc)
    IN  IF ~got.ok \/ \E k \in DOMAIN got.final : Ratings(nodes[got.final[k]].stars) = RatingsThrew
          THEN [status |-> "threw", final |-> <<>>]
        ELSE [status |-> "returned",
              final |-> [k \in DOMAIN got.final |-> BodyRecord(nodes[got.final[k]])]]

\* ------------------------------------ content.js: the validityResults handler
\* forEach over the current children.  request.data.predictions.predictions[key]
\* is read first (a missing predictions object or key throws), then
\* injectIntoTarget touches target.style (throws for a child without
\* childNodes[1]); a throw ends the forEach.  c is the submission the message
\* answers, hasPreds whether the relayed body carries predictions, preds the
\* prediction per key.
RECURSIVE ResultsLoop(_, _, _, _, _, _)
ResultsLoop(its, bs, c, hasPreds, preds, i) ==
    IF i > Len(its) THEN bs
    ELSE IF ~hasPreds THEN bs
    ELSE IF i \notin DOMAIN preds THEN bs
    ELSE IF its[i].shape = "noMain" THEN bs
    ELSE ResultsLoop(its, [bs EXCEPT ![i] = InjectResult(bs[i], preds[i], c.gen, c.data[i])],
                     c, hasPreds, preds, i + 1)

\* The same listener in the second variant (lines 501-522).
RECURSIVE ResultsLoopV2(_, _, _, _, _, _)
ResultsLoopV2(its, bs, c, hasPreds, preds, i) ==
    IF i > Len(its) THEN bs
    ELSE IF ~hasPreds THEN bs
    ELSE IF i \notin DOMAIN preds THEN bs
    ELSE IF its[i].shape = "noMain" THEN bs
    ELSE ResultsLoopV2(its, [bs EXCEPT ![i] = InjectResultV2(bs[i], preds[i], c.gen, c.data[i])],
                       c, hasPreds, preds, i + 1)

\* The JSON bodies the relay passes on as request.data:
\*   nested  {predictions: {predictions: {`review i`: entry}}}
\*   flat    {predictions: {`review i`: entry}}
\*   none    no predictions field
\* The listener reads request.data.predictions.predictions[key]: the inner
\* object is defined for the nested body only.
ResponseShapes == {"nested", "flat", "none"}
HasInnerPredictions(shape) == shape = "nested"

\* ------------------------------------------------------------------- state
\* part_002: ENV.API_URL, the host getValidity POSTs every batch to.
API_URL == "https://frauditor.onrender.com"

\* Hosts on the user's own machine.
LocalHosts == {"http://localhost:8000"}

\* A batch handed to chrome.runtime.sendMessage: the relay passes msg.data to
\* getValidity, which sends it as the body of a POST to url.
NewCycle(g, data) == [gen |-> g, data |-> data, url |-> API_URL]

\* Mutant of AfterCallback: the callback leaves `observer` connected.
AfterCallbackStaysConnected(connected) == connected

\* content.js lines 6-12: whether `observer` is connected after a callback
\* that found the container: obs.disconnect() runs before observeElement.
AfterCallback(connected) == connected /\ FALSE

\* The auto-crawl variant before its script has run, and the popup before it
\* has been opened.
NoCrawl == [status |-> "off"]
NoPopup == [status |-> "closed"]

\* The runs with a single tab.
NoTabs == [status |-> "single"]

Range(f) == {f[k] : k \in DOMAIN f}

RemoveAt(s, k) == [j \in 1..(Len(s) - 1) |-> IF j < k THEN s[j] ELSE s[j + 1]]

Init ==
    /\ attached \in BOOLEAN
    /\ bodyObs = TRUE
    /\ armed = FALSE
    /\ ioLast = "none"
    /\ opacity = "1"
    /\ swapped = FALSE
    /\ cos = 0
    /\ timers = 0
    /\ gen = IF attached THEN 1 ELSE 0
    /\ items \in IF attached THEN Pages ELSE {<<>>}
    /\ badges = FreshBadges(items)
    /\ commonClass = NoClass
    /\ cycles = <<>>
    /\ subs = [g \in Gens |-> 0]
    /\ ended = [g \in Gens |-> "none"]
    /\ last = "none"
    /\ settled = 0
    /\ seen = FALSE
    /\ infoNodes = <<>>
    /\ records = NoRecords
    /\ installs = 0
    /\ lastBatch = <<>>
    /\ crawl = NoCrawl
    /\ popup = NoPopup
    /\ tabs = NoTabs

\* ------------------------------------------------------- content.js: tasks
\* processComments() called from a callback: everything up to the pending
\* sendMessage runs in that task and its microtasks.
RunProcessComments ==
    LET r == processComments(items, badges, commonClass)
    IN  /\ r.outcome = "submitted" => subs[gen] < MaxSubs
        /\ badges' = r.badges
        /\ commonClass' = r.cc
        /\ cycles' = IF r.outcome = "submitted"
                        THEN Append(cycles, NewCycle(gen, r.data)) ELSE cycles
        /\ subs' = IF r.outcome = "submitted" THEN [subs EXCEPT ![gen] = @ + 1] ELSE subs
        /\ ended' = IF r.outcome \in {"harvestFailed", "threw"}
                       THEN [ended EXCEPT ![gen] = r.outcome] ELSE ended
        /\ last' = r.outcome

\* The host page attaches the comment list with its first rendered set; the
\* callback of `observer` (lines 6-12) finds it, disconnects, and
\* observeElement installs io and ratingsObserver.
HostAttach ==
    /\ ~attached
    /\ attached' = TRUE
    /\ gen' = 1
    /\ \E p \in Pages : items' = p /\ badges' = FreshBadges(p)
    /\ armed' = (armed \/ bodyObs)
    /\ installs' = IF bodyObs THEN installs + 1 ELSE installs
    /\ bodyObs' = AfterCallback(bodyObs)
    /\ UNCHANGED <<tabs, popup, crawl, lastBatch, seen, infoNodes, records, ioLast, opacity, swapped, cos, timers, commonClass,
                   cycles, subs, ended, last, settled>>

\* Any other childList mutation under document.body while `observer` is
\* still connected and the container is present.
HostBodyMutation ==
    /\ attached /\ bodyObs
    /\ armed' = TRUE
    /\ installs' = installs + 1
    /\ bodyObs' = AfterCallback(bodyObs)
    /\ UNCHANGED <<tabs, popup, crawl, lastBatch, seen, infoNodes, records, attached, ioLast, opacity, swapped, cos, timers, gen, items,
                   badges, commonClass, cycles, subs, ended, last, settled>>

\* io's callback (lines 188-195) with an intersecting entry: the first report
\* after io.observe, or the container scrolled into the viewport.
IOIntersecting ==
    /\ armed /\ ioLast # "in"
    /\ ioLast' = "in"
    /\ RunProcessComments
    /\ seen' = TRUE
    /\ UNCHANGED <<tabs, popup, crawl, lastBatch, installs, infoNodes, records, attached, bodyObs, armed, opacity, swapped, cos, timers, gen,
                   items, settled>>

\* io's callback with a non-intersecting entry: nothing happens.
IONotIntersecting ==
    /\ armed /\ ioLast # "out"
    /\ ioLast' = "out"
    /\ UNCHANGED <<tabs, popup, crawl, lastBatch, installs, seen, infoNodes, records, attached, bodyObs, armed, opacity, swapped, cos, timers, gen,
                   items, badges, commonClass, cycles, subs, ended, last, settled>>

\* The host sets a style with opacity v # 1 on .product-ratings__list;
\* ratingsObserver (lines 199-236) then creates and connects one more
\* completionObserver; the connected ones see an opacity other than 1.
HostFade(v) ==
    /\ attached /\ v # "1"
    /\ armed => cos < MaxObservers
    /\ opacity' = v
    /\ swapped' = IF opacity = "1" THEN FALSE ELSE swapped
    /\ cos' = IF armed THEN cos + 1 ELSE cos
    /\ UNCHANGED <<tabs, popup, crawl, lastBatch, installs, seen, infoNodes, records, attached, bodyObs, armed, ioLast, timers, gen, items, badges,
                   commonClass, cycles, subs, ended, last, settled>>

\* The host replaces the rendered items during the fade (a childList mutation,
\* which also runs `observer` if it is still connected).
HostReplaceItems ==
    /\ attached /\ opacity # "1" /\ ~swapped /\ gen < MaxPages
    /\ gen' = gen + 1
    /\ \E p \in Pages : items' = p /\ badges' = FreshBadges(p)
    /\ swapped' = TRUE
    /\ armed' = (armed \/ bodyObs)
    /\ installs' = IF bodyObs THEN installs + 1 ELSE installs
    /\ bodyObs' = AfterCallback(bodyObs)
    /\ last' = "none"
    /\ settled' = 0
    /\ UNCHANGED <<tabs, popup, crawl, lastBatch, seen, infoNodes, records, attached, ioLast, opacity, cos, timers, commonClass, cycles,
                   subs, ended>>

\* Mutant of HostSettle: the completionObserver compares the opacity with the
\* number 1 instead of the string '1', so it never schedules processComments.
HostSettleNoTimer ==
    /\ attached /\ opacity # "1"
    /\ timers + cos <= MaxObservers
    /\ opacity' = "1"
    /\ swapped' = FALSE
    /\ timers' = timers
    /\ cos' = cos
    /\ settled' = cos
    /\ UNCHANGED <<tabs, popup, crawl, lastBatch, installs, seen, infoNodes, records, attached, bodyObs, armed, ioLast, gen, items, badges,
                   commonClass, cycles, subs, ended, last>>

\* The host sets opacity back to 1: ratingsObserver ignores it, every
\* connected completionObserver (lines 213-227) schedules processComments
\* after 200ms and disconnects.
HostSettle ==
    /\ attached /\ opacity # "1"
    /\ timers + cos <= MaxObservers
    /\ opacity' = "1"
    /\ swapped' = FALSE
    /\ timers' = timers + cos
    /\ cos' = 0
    /\ settled' = cos
    /\ UNCHANGED <<tabs, popup, crawl, lastBatch, installs, seen, infoNodes, records, attached, bodyObs, armed, ioLast, gen, items, badges,
                   commonClass, cycles, subs, ended, last>>

\* One settle timer fires (lines 220-222).
TimerFire ==
    /\ timers > 0
    /\ timers' = timers - 1
    /\ RunProcessComments
    /\ UNCHANGED <<tabs, popup, crawl, lastBatch, installs, seen, infoNodes, records, attached, bodyObs, armed, ioLast, opacity, swapped, cos, gen,
                   items, settled>>

\* ------------------------- part_002 and content.js: the answer to a submission
\* The fetch of getValidity resolves with a body that carries predictions for
\* the submitted keys; the background listener sends validityResults to the
\* tab and calls sendResponse.  In the tab the validityResults listener
\* (lines 248-269) runs on the current children, then the pending sendMessage
\* of processComments resolves and its try block ends.
ClassifierAnswers(k) ==
    /\ k \in DOMAIN cycles
    /\ \E pr \in [DOMAIN cycles[k].data -> Predictions] :
          badges' = ResultsLoop(items, badges, cycles[k], HasInnerPredictions("nested"), pr, 1)
    /\ cycles' = RemoveAt(cycles, k)
    /\ ended' = [ended EXCEPT ![cycles[k].gen] = "ok"]
    /\ last' = "none"
    /\ UNCHANGED <<tabs, popup, crawl, lastBatch, installs, seen, infoNodes, records, attached, bodyObs, armed, ioLast, opacity, swapped, cos, timers,
                   gen, items, commonClass, subs, settled>>

\* The classifier answers non-2xx with a JSON body without predictions:
\* getValidity does not look at response.ok, so the body is relayed like a
\* result and sendResponse is called all the same.
ClassifierHttpError(k) ==
    /\ k \in DOMAIN cycles
    /\ badges' = ResultsLoop(items, badges, cycles[k], HasInnerPredictions("none"), EmptyFinal, 1)
    /\ cycles' = RemoveAt(cycles, k)
    /\ ended' = [ended EXCEPT ![cycles[k].gen] = "httpError"]
    /\ last' = "none"
    /\ UNCHANGED <<tabs, popup, crawl, lastBatch, installs, seen, infoNodes, records, attached, bodyObs, armed, ioLast, opacity, swapped, cos, timers,
                   gen, items, commonClass, subs, settled>>

\* fetch (network error, timeout) or response.json() rejects: the async block
\* of the background listener rejects, sendResponse is never called, the
\* message channel closes and the pending sendMessage of processComments
\* rejects: its catch block (lines 169-183) runs on the current children.
ClassifierUnreachable(k) ==
    /\ k \in DOMAIN cycles
    /\ badges' = ErrorLoop(items, badges)
    /\ cycles' = RemoveAt(cycles, k)
    /\ ended' = [ended EXCEPT ![cycles[k].gen] = "rejected"]
    /\ last' = "none"
    /\ UNCHANGED <<tabs, popup, crawl, lastBatch, installs, seen, infoNodes, records, attached, bodyObs, armed, ioLast, opacity, swapped, cos, timers,
                   gen, items, commonClass, subs, settled>>

MaxCycles == MaxPages * MaxSubs

Next ==
    \/ HostAttach
    \/ HostBodyMutation
    \/ IOIntersecting
    \/ IONotIntersecting
    \/ \E v \in Opacities : HostFade(v)
    \/ HostReplaceItems
    \/ HostSettle
    \/ TimerFire
    \/ \E k \in 1..MaxCycles : ClassifierAnswers(k)
    \/ \E k \in 1..MaxCycles : ClassifierHttpError(k)
    \/ \E k \in 1..MaxCycles : ClassifierUnreachable(k)

Spec == Init /\ [][Next]_vars

\* ------------------------------------------------- single-page harvest runs
\* One rendered set of up to MaxHarvestItems items, observeElement already
\* run, no pagination: visibility reports, the harvest and its answer.
HarvestPages == {p \in SeqsUpTo(Items, MaxHarvestItems) : Len(p) >= 1}

InitHarvest ==
    /\ attached = TRUE
    /\ bodyObs = FALSE
    /\ armed = TRUE
    /\ ioLast = "none"
    /\ opacity = "1"
    /\ swapped = FALSE
    /\ cos = 0
    /\ timers = 0
    /\ gen = 1
    /\ items \in HarvestPages
    /\ badges = FreshBadges(items)
    /\ commonClass = NoClass
    /\ cycles = <<>>
    /\ subs = [g \in Gens |-> 0]
    /\ ended = [g \in Gens |-> "none"]
    /\ last = "none"
    /\ settled = 0
    /\ seen = FALSE
    /\ infoNodes = <<>>
    /\ records = NoRecords
    /\ installs = 0
    /\ lastBatch = <<>>
    /\ crawl = NoCrawl
    /\ popup = NoPopup
    /\ tabs = NoTabs

NextHarvest ==
    \/ IOIntersecting
    \/ IONotIntersecting
    \/ \E k \in 1..MaxCycles : ClassifierAnswers(k)
    \/ \E k \in 1..MaxCycles : ClassifierHttpError(k)
    \/ \E k \in 1..MaxCycles : ClassifierUnreachable(k)

SpecHarvest == InitHarvest /\ [][NextHarvest]_vars

\* ------------------------------------------------ answers of any content
\* As ClassifierAnswers, with any prediction value in the entries.
ClassifierAnswersAnyValue(k) ==
    /\ k \in DOMAIN cycles
    /\ \E pr \in [DOMAIN cycles[k].data -> PredictionValues] :
          badges' = ResultsLoop(items, badges, cycles[k], HasInnerPredictions("nested"), pr, 1)
    /\ cycles' = RemoveAt(cycles, k)
    /\ ended' = [ended EXCEPT ![cycles[k].gen] = "ok"]
    /\ last' = "none"
    /\ UNCHANGED <<tabs, popup, crawl, lastBatch, installs, seen, infoNodes, records, attached, bodyObs, armed, ioLast, opacity,
                   swapped, cos, timers, gen, items, commonClass, subs, settled>>

\* The same answer handled by the second variant of the content script.
ClassifierAnswersV2(k) ==
    /\ k \in DOMAIN cycles
    /\ \E pr \in [DOMAIN cycles[k].data -> PredictionValues] :
          badges' = ResultsLoopV2(items, badges, cycles[k], HasInnerPredictions("nested"), pr, 1)
    /\ cycles' = RemoveAt(cycles, k)
    /\ ended' = [ended EXCEPT ![cycles[k].gen] = "ok"]
    /\ last' = "none"
    /\ UNCHANGED <<tabs, popup, crawl, lastBatch, installs, seen, infoNodes, records, attached, bodyObs, armed, ioLast, opacity,
                   swapped, cos, timers, gen, items, commonClass, subs, settled>>

\* The classifier answers 2xx with the flat body: `predictions` maps each
\* submitted key directly to its entry.
ClassifierAnswersFlat(k) ==
    /\ k \in DOMAIN cycles
    /\ \E pr \in [DOMAIN cycles[k].data -> Predictions] :
          badges' = ResultsLoop(items, badges, cycles[k], HasInnerPredictions("flat"), pr, 1)
    /\ cycles' = RemoveAt(cycles, k)
    /\ ended' = [ended EXCEPT ![cycles[k].gen] = "flat"]
    /\ last' = "none"
    /\ UNCHANGED <<tabs, popup, crawl, lastBatch, installs, seen, infoNodes, records, attached, bodyObs, armed, ioLast, opacity,
                   swapped, cos, timers, gen, items, commonClass, subs, settled>>

\* One rendered set, observeElement already run: visibility reports, the
\* harvest, and an answer of any shape and content, handled by either variant.
InitAnswers ==
    /\ attached = TRUE
    /\ bodyObs = FALSE
    /\ armed = TRUE
    /\ ioLast = "none"
    /\ opacity = "1"
    /\ swapped = FALSE
    /\ cos = 0
    /\ timers = 0
    /\ gen = 1
    /\ items \in Pages
    /\ badges = FreshBadges(items)
    /\ commonClass = NoClass
    /\ cycles = <<>>
    /\ subs = [g \in Gens |-> 0]
    /\ ended = [g \in Gens |-> "none"]
    /\ last = "none"
    /\ settled = 0
    /\ seen = FALSE
    /\ infoNodes = <<>>
    /\ records = NoRecords
    /\ installs = 0
    /\ lastBatch = <<>>
    /\ crawl = NoCrawl
    /\ popup = NoPopup
    /\ tabs = NoTabs

NextAnswers ==
    \/ IOIntersecting
    \/ IONotIntersecting
    \/ \E k \in 1..MaxCycles : ClassifierAnswersAnyValue(k)
    \/ \E k \in 1..MaxCycles : ClassifierAnswersV2(k)
    \/ \E k \in 1..MaxCycles : ClassifierAnswersFlat(k)
    \/ \E k \in 1..MaxCycles : ClassifierUnreachable(k)

SpecAnswers == InitAnswers /\ [][NextAnswers]_vars

\* ------------------------------------------------- batched style mutations
\* The longest run of style writes the host makes within one task.
MaxRecs == 2

Batches == {ws \in SeqsUpTo(Opacities, MaxRecs) : Len(ws) >= 1}

\* The host writes the wrapper's style Len(ws) times within one task; the
\* records are delivered together at the end of the task, first to
\* ratingsObserver and then to the completionObservers that were connected
\* before.  Every callback reads mutation.target.style.opacity, the value
\* written last.  With a value other than 1 ratingsObserver connects one
\* completionObserver per record (content.js 209-233); with 1 every connected
\* completionObserver schedules one timer per record and disconnects
\* (content.js 214-226).
HostWritesStyles(ws) ==
    LET v == ws[Len(ws)]
        n == Len(ws)
    IN  /\ attached /\ armed
        /\ opacity' = v
        /\ lastBatch' = ws
        /\ IF v # "1"
              THEN /\ cos + n <= MaxObservers
                   /\ cos' = cos + n
                   /\ timers' = timers
                   /\ settled' = settled
              ELSE /\ timers + cos * n <= MaxObservers
                   /\ timers' = timers + cos * n
                   /\ cos' = 0
                   /\ settled' = cos
        /\ swapped' = IF opacity = "1" \/ "1" \in Range(ws) THEN FALSE ELSE swapped
        /\ UNCHANGED <<tabs, popup, crawl, installs, seen, infoNodes, records, attached, bodyObs,
                       armed, ioLast, gen, items, badges, commonClass, cycles, subs,
                       ended, last>>

NextBatched ==
    \/ \E ws \in Batches : HostWritesStyles(ws)
    \/ HostReplaceItems
    \/ TimerFire

SpecBatched == InitAnswers /\ [][NextBatched]_vars

\* ------------------------------------------ the auto-crawl variant of getReviews
\* src/backend/docker-entry.sh lines 19-182.  The script computes commonClass
\* once at load and calls getReviews(), which merges the rendered page into
\* `final`, clicks "next" and schedules itself again after CONFIG.pageDelay.
MaxClicks == 4
MaxCrawlItems == 2

\* Line 163: `if (count != 2)`.
ClickCap == 2

\* A rendered item of the common class: "ok" is extracted, "bad" makes the
\* extraction throw (a child the positional reads do not find).
CrawlShapes == {"ok", "bad"}
CrawlPages == {p \in SeqsUpTo(CrawlShapes, MaxCrawlItems) : Len(p) >= 1}

\* What the page controller shows: its second-to-last child reads "..."
\* ("ellipsis") or something else ("plain"), or the controller is not in the
\* document ("none": querySelector returns null and reading childNodes throws).
Navs == {"ellipsis", "plain", "none"}

\* Mutant of CrawlKey: the key does not continue the numbering of `final`.
CrawlKeyNoOffset(i, currentNum) == i + 1

\* Line 139: the key `review ${i + 1 + currentNum}` of the i-th selected
\* element (i from 0), currentNum = Object.keys(final).length at the call.
CrawlKey(i, currentNum) == i + 1 + currentNum

\* Lines 63-152: the loop over the selected elements of rendered page pg.  A
\* record is named by the page and position it was read from.
RECURSIVE CrawlLoop(_, _, _, _, _)
CrawlLoop(rendered, pg, i, currentNum, final) ==
    IF i >= Len(rendered) THEN [ok |-> TRUE, final |-> final]
    ELSE IF rendered[i + 1] = "bad" THEN [ok |-> FALSE, final |-> final]
    ELSE CrawlLoop(rendered, pg, i + 1, currentNum,
             [k \in DOMAIN final \cup {CrawlKey(i, currentNum)} |->
                 IF k = CrawlKey(i, currentNum) THEN [page |-> pg, pos |-> i + 1]
                                                ELSE final[k]])

\* Lines 175-182: the script has run on a page with a non-empty comment
\* list and has called getReviews(), modelled as a call that is due.
InitCrawl ==
    /\ attached = TRUE
    /\ bodyObs = FALSE
    /\ armed = FALSE
    /\ ioLast = "none"
    /\ opacity = "1"
    /\ swapped = FALSE
    /\ cos = 0
    /\ timers = 0
    /\ gen = 0
    /\ items = <<>>
    /\ badges = <<>>
    /\ commonClass = "A"
    /\ cycles = <<>>
    /\ subs = [g \in Gens |-> 0]
    /\ ended = [g \in Gens |-> "none"]
    /\ last = "none"
    /\ settled = 0
    /\ seen = FALSE
    /\ infoNodes = <<>>
    /\ records = NoRecords
    /\ installs = 0
    /\ lastBatch = <<>>
    /\ popup = NoPopup
    /\ tabs = NoTabs
    /\ \E r \in CrawlPages, n \in Navs :
          crawl = [status |-> "scheduled", count |-> 0, clicks |-> 0, final |-> EmptyFinal,
                   page |-> 1, rendered |-> r, nav |-> n, fresh |-> TRUE]

\* One call of getReviews (lines 60-173), at load or from the timer of the
\* previous call.  A throw (in the extraction, or on the missing page
\* controller) ends the crawl with what `final` holds by then.
CrawlGetReviews ==
    LET currentNum == Cardinality(DOMAIN crawl.final)
        got == CrawlLoop(crawl.rendered, crawl.page, 0, currentNum, crawl.final)
    IN  /\ crawl.status = "scheduled"
        /\ IF ~got.ok \/ crawl.nav = "none"
              THEN crawl' = [crawl EXCEPT !.final = got.final, !.status = "threw"]
            ELSE IF crawl.nav = "ellipsis"
              THEN /\ crawl.clicks < MaxClicks
                   /\ crawl' = [crawl EXCEPT !.final = got.final, !.clicks = @ + 1,
                                              !.fresh = FALSE]
            ELSE IF crawl.count # ClickCap
              THEN /\ crawl.clicks < MaxClicks
                   /\ crawl' = [crawl EXCEPT !.final = got.final, !.clicks = @ + 1,
                                              !.count = @ + 1, !.fresh = FALSE]
            ELSE crawl' = [crawl EXCEPT !.final = got.final, !.status = "stopped"]
        /\ UNCHANGED <<tabs, popup, lastBatch, installs, seen, infoNodes, records, attached, bodyObs,
                       armed, ioLast, opacity, swapped, cos, timers, gen, items, badges,
                       commonClass, cycles, subs, ended, last, settled>>

\* The host answers the click within the page delay: the next page and its
\* page controller are rendered.  (If it does not, the next call reads the
\* page that is still rendered.)
CrawlHostRenders ==
    /\ crawl.status = "scheduled" /\ ~crawl.fresh
    /\ \E r \in CrawlPages, n \in Navs :
          crawl' = [crawl EXCEPT !.rendered = r, !.nav = n, !.page = @ + 1, !.fresh = TRUE]
    /\ UNCHANGED <<tabs, popup, lastBatch, installs, seen, infoNodes, records, attached, bodyObs,
                   armed, ioLast, opacity, swapped, cos, timers, gen, items, badges,
                   commonClass, cycles, subs, ended, last, settled>>

NextCrawl == CrawlGetReviews \/ CrawlHostRenders

SpecCrawl == InitCrawl /\ [][NextCrawl]_vars

\* ------------------------------------------------- the relay and the tabs
\* part_002 lines 15-32 with several tabs in the window.  A tab either runs
\* the content script on a product page (a rendered set of well-formed items)
\* or is some other page without it (no rendered set).
MaxTabs == 2
Tabs == 1..MaxTabs

TabPages == {p \in Pages : \A i \in 1..Len(p) : p[i] = [shape |-> "ok", cls |-> "A"]}

InitTabs ==
    /\ attached = TRUE
    /\ bodyObs = FALSE
    /\ armed = TRUE
    /\ ioLast = "none"
    /\ opacity = "1"
    /\ swapped = FALSE
    /\ cos = 0
    /\ timers = 0
    /\ gen = 0
    /\ items = <<>>
    /\ badges = <<>>
    /\ commonClass = NoClass
    /\ cycles = <<>>
    /\ subs = [g \in Gens |-> 0]
    /\ ended = [g \in Gens |-> "none"]
    /\ last = "none"
    /\ settled = 0
    /\ seen = FALSE
    /\ infoNodes = <<>>
    /\ records = NoRecords
    /\ installs = 0
    /\ lastBatch = <<>>
    /\ crawl = NoCrawl
    /\ popup = NoPopup
    /\ \E pg \in [Tabs -> TabPages \cup {<<>>}], a \in Tabs :
          tabs = [active |-> a, page |-> pg,
                  badges |-> [t \in Tabs |-> FreshBadges(pg[t])],
                  inflight |-> <<>>, answered |-> {}]

\* The comment list of the active tab t is reported as intersecting and its
\* content script runs processComments (content.js 141-185); a submitted
\* batch reaches the background listener as msg.data, and the batch is
\* recorded with the tab it came from.
TabProcessComments(t) ==
    LET r == processComments(tabs.page[t], tabs.badges[t], NoClass)
    IN  /\ t = tabs.active /\ tabs.page[t] # <<>>
        /\ tabs' = [tabs EXCEPT
                       !.badges[t] = r.badges,
                       !.inflight = IF r.outcome = "submitted"
                                       THEN Append(@, NewCycle(t, r.data)) ELSE @]
        /\ UNCHANGED <<popup, crawl, lastBatch, installs, seen, infoNodes, records, attached,
                       bodyObs, armed, ioLast, opacity, swapped, cos, timers, gen, items,
                       badges, commonClass, cycles, subs, ended, last, settled>>

\* The user activates another tab of the window.
UserActivatesTab(t) ==
    /\ t \in Tabs /\ t # tabs.active
    /\ tabs' = [tabs EXCEPT !.active = t]
    /\ UNCHANGED <<popup, crawl, lastBatch, installs, seen, infoNodes, records, attached,
                   bodyObs, armed, ioLast, opacity, swapped, cos, timers, gen, items,
                   badges, commonClass, cycles, subs, ended, last, settled>>

\* getValidity resolves for batch k (part_002 lines 18-27): the listener
\* queries the active tab of the current window and sends validityResults to
\* tabs[0].id; sender.tab is not read.  A tab with the content script runs
\* its validityResults listener on its own children; in a tab without it
\* nobody receives the message.  Then sendResponse resolves the sender's
\* pending sendMessage.
RelayAnswers(k) ==
    /\ k \in DOMAIN tabs.inflight
    /\ LET c == tabs.inflight[k]
           to == tabs.active
       IN  \E pr \in [DOMAIN c.data -> Predictions] :
              tabs' = [tabs EXCEPT
                         !.badges[to] = ResultsLoop(tabs.page[to], @, c,
                                                    HasInnerPredictions("nested"), pr, 1),
                         !.inflight = RemoveAt(@, k),
                         !.answered = @ \cup {c.gen}]
    /\ UNCHANGED <<popup, crawl, lastBatch, installs, seen, infoNodes, records, attached,
                   bodyObs, armed, ioLast, opacity, swapped, cos, timers, gen, items,
                   badges, commonClass, cycles, subs, ended, last, settled>>

NextTabs ==
    \/ \E t \in Tabs : TabProcessComments(t)
    \/ \E t \in Tabs : UserActivatesTab(t)
    \/ \E k \in Tabs : RelayAnswers(k)

SpecTabs == InitTabs /\ [][NextTabs]_vars

\* ------------------------------------------------------------- the popup
\* src/frontend/popup/popup.js lines 1-540: the popup's module state (cache,
\* history, wordFreq, stats.cacheHits), the last feedback it showed, and the
\* keys it keeps in chrome.storage.local.
MaxAnalyses == 3

\* Line 184: `text.length < 3`; line 54: `text.length < 20`; line 315:
\* `history.length > 50`.
MinTextLength == 3
ShortTextLength == 20
HistoryCap == 50

\* What the user has typed into reviewInput when Analyze is clicked.
PopupInputs ==
    {"", "  ", "ok", "scam shoes", "best ever deal", "shoes arrived and they fit well"}

\* String.prototype.trim, length, and the keyword test of mockAnalyzeReview
\* on these inputs.
PopupTrim(t) == IF t = "  " THEN "" ELSE t
TextLength(t) ==
    CASE t = "" -> 0
      [] t = "  " -> 2
      [] t = "ok" -> 2
      [] t = "scam shoes" -> 10
      [] t = "best ever deal" -> 14
      [] t = "shoes arrived and they fit well" -> 31
HasKeyword(t) == t \in {"scam shoes", "best ever deal"}

\* Line 321-325: the words of more than three characters of a text.
LongWords(t) ==
    CASE t = "scam shoes" -> {"scam", "shoes"}
      [] t = "best ever deal" -> {"best", "ever", "deal"}
      [] t = "shoes arrived and they fit well" -> {"shoes", "arrived", "they", "well"}
      [] OTHER -> {}

\* Lines 50-70: the result carries the analysed text.
mockAnalyzeReview(text) ==
    [prediction |-> IF HasKeyword(text) \/ TextLength(text) < ShortTextLength
                       THEN "fake" ELSE "real",
     text |-> text]

\* Lines 133-147, saveAllData: what chrome.storage.local holds afterwards
\* under frauditorCache, frauditorHistory and frauditorWordFreq.
saveAllData(p) == [cache |-> p.cache, history |-> p.history, wordFreq |-> p.wordFreq,
                   cacheHits |-> p.cacheHits, totalAnalyzed |-> p.totalAnalyzed,
                   fakeDetected |-> p.fakeDetected]

EmptyStorage == [cache |-> EmptyFinal, history |-> <<>>, wordFreq |-> {}, cacheHits |-> 0,
                 totalAnalyzed |-> 0, fakeDetected |-> 0]

\* Lines 31-47 and initializePopup with nothing saved yet.  `session` counts
\* the analyses made since the popup was opened.
OpenPopup ==
    [status |-> "open", cache |-> EmptyFinal, history |-> <<>>, wordFreq |-> {},
     cacheHits |-> 0, totalAnalyzed |-> 0, fakeDetected |-> 0, session |-> 0,
     notice |-> "none", storage |-> EmptyStorage]

InitPopup ==
    /\ attached = FALSE
    /\ bodyObs = TRUE
    /\ armed = FALSE
    /\ ioLast = "none"
    /\ opacity = "1"
    /\ swapped = FALSE
    /\ cos = 0
    /\ timers = 0
    /\ gen = 0
    /\ items = <<>>
    /\ badges = <<>>
    /\ commonClass = NoClass
    /\ cycles = <<>>
    /\ subs = [g \in Gens |-> 0]
    /\ ended = [g \in Gens |-> "none"]
    /\ last = "none"
    /\ settled = 0
    /\ seen = FALSE
    /\ infoNodes = <<>>
    /\ records = NoRecords
    /\ installs = 0
    /\ lastBatch = <<>>
    /\ crawl = NoCrawl
    /\ popup = OpenPopup
    /\ tabs = NoTabs

\* Mutant of updateStats: the history is not cut back to its last entries.
updateStatsNoCap(p, result) ==
    LET h == Append(p.history, [text |-> result.text, prediction |-> result.prediction])
    IN  [p EXCEPT !.totalAnalyzed = @ + 1,
                  !.fakeDetected = IF result.prediction = "fake" THEN @ + 1 ELSE @,
                  !.history = h,
                  !.wordFreq = IF result.prediction = "fake"
                                  THEN @ \cup LongWords(result.text) ELSE @]

\* Lines 295-326, updateStats: the counters, the history entry (the last
\* HistoryCap entries are kept) and the word counts.
updateStats(p, result) ==
    LET h == Append(p.history, [text |-> result.text, prediction |-> result.prediction])
    IN  [p EXCEPT !.totalAnalyzed = @ + 1,
                  !.fakeDetected = IF result.prediction = "fake" THEN @ + 1 ELSE @,
                  !.history = IF Len(h) > HistoryCap
                                 THEN SubSeq(h, Len(h) - HistoryCap + 1, Len(h)) ELSE h,
                  !.wordFreq = IF result.prediction = "fake"
                                  THEN @ \cup LongWords(result.text) ELSE @]

\* Lines 175-220, handleAnalyze with `input` in reviewInput: the popup
\* afterwards.
Analyze(p, input) ==
    LET text == PopupTrim(input)
        hit == text \in DOMAIN p.cache
        result == IF hit THEN p.cache[text] ELSE mockAnalyzeReview(text)
        cached == [p EXCEPT
                     !.cache = IF hit THEN @
                               ELSE [t \in DOMAIN @ \cup {text} |->
                                        IF t = text THEN result ELSE @[t]],
                     !.cacheHits = IF hit THEN @ + 1 ELSE @,
                     !.session = @ + 1,
                     !.notice = "result"]
        counted == updateStats(cached, result)
    IN  IF text = "" \/ TextLength(text) < MinTextLength
           THEN [p EXCEPT !.notice = "error"]
           ELSE [counted EXCEPT !.storage = saveAllData(counted)]

handleAnalyze(input) ==
        /\ popup.session < MaxAnalyses
        /\ popup' = Analyze(popup, input)
        /\ UNCHANGED <<tabs, crawl, lastBatch, installs, seen, infoNodes, records, attached, bodyObs,
                       armed, ioLast, opacity, swapped, cos, timers, gen, items, badges,
                       commonClass, cycles, subs, ended, last, settled>>

\* Lines 472-504, handleClearCache: history is not among the things cleared.
handleClearCache ==
    LET cleared == [popup EXCEPT !.cache = EmptyFinal, !.cacheHits = 0, !.wordFreq = {},
                                 !.notice = "cleared"]
    IN  /\ popup' = [cleared EXCEPT !.storage = saveAllData(cleared)]
        /\ UNCHANGED <<tabs, crawl, lastBatch, installs, seen, infoNodes, records, attached, bodyObs,
                       armed, ioLast, opacity, swapped, cos, timers, gen, items, badges,
                       commonClass, cycles, subs, ended, last, settled>>

\* Lines 507-539 and 92-130, handleRefreshStats: loadSavedData copies the
\* stored keys back into the module state.
handleRefreshStats ==
    /\ popup' = [popup EXCEPT !.cache = popup.storage.cache,
                              !.history = popup.storage.history,
                              !.wordFreq = popup.storage.wordFreq,
                              !.cacheHits = popup.storage.cacheHits,
                              !.totalAnalyzed = popup.storage.totalAnalyzed,
                              !.fakeDetected = popup.storage.fakeDetected,
                              !.notice = "refreshed"]
    /\ UNCHANGED <<tabs, crawl, lastBatch, installs, seen, infoNodes, records, attached, bodyObs,
                   armed, ioLast, opacity, swapped, cos, timers, gen, items, badges,
                   commonClass, cycles, subs, ended, last, settled>>

NextPopup ==
    \/ \E input \in PopupInputs : handleAnalyze(input)
    \/ handleClearCache
    \/ handleRefreshStats

SpecPopup == InitPopup /\ [][NextPopup]_vars

\* The popup reopened after n >= 1 analyses of the review "scam shoes" in
\* earlier sessions: what handleAnalyze built up and saveAllData stored, as
\* initializePopup loads it.
SavedPopup(n) ==
    LET result == mockAnalyzeReview("scam shoes")
        kept == IF n > HistoryCap THEN HistoryCap ELSE n
        loaded == [OpenPopup EXCEPT
                     !.cache = [t \in {"scam shoes"} |-> result],
                     !.history = [k \in 1..kept |->
                                     [text |-> result.text, prediction |-> result.prediction]],
                     !.wordFreq = LongWords("scam shoes"),
                     !.cacheHits = n - 1,
                     !.totalAnalyzed = n,
                     !.fakeDetected = n]
    IN  [loaded EXCEPT !.storage = saveAllData(loaded)]

\* The popup opens on a history that is one short of its cap, at its cap, or
\* has been cut once.
InitPopupSaved ==
    /\ attached = FALSE
    /\ bodyObs = TRUE
    /\ armed = FALSE
    /\ ioLast = "none"
    /\ opacity = "1"
    /\ swapped = FALSE
    /\ cos = 0
    /\ timers = 0
    /\ gen = 0
    /\ items = <<>>
    /\ badges = <<>>
    /\ commonClass = NoClass
    /\ cycles = <<>>
    /\ subs = [g \in Gens |-> 0]
    /\ ended = [g \in Gens |-> "none"]
    /\ last = "none"
    /\ settled = 0
    /\ seen = FALSE
    /\ infoNodes = <<>>
    /\ records = NoRecords
    /\ installs = 0
    /\ lastBatch = <<>>
    /\ crawl = NoCrawl
    /\ popup \in {SavedPopup(n) : n \in {HistoryCap - 1, HistoryCap, HistoryCap + 1}}
    /\ tabs = NoTabs

SpecPopupSaved == InitPopupSaved /\ [][NextPopup]_vars

\* ------------------------------------ the variant without detectCommonClass
\* processComments() of part_004 lines 91-133 called from a callback.
RunProcessCommentsNoDetect ==
    LET r == processCommentsNoDetect(items, badges, commonClass)
    IN  /\ r.outcome = "submitted" => subs[gen] < MaxSubs
        /\ badges' = r.badges
        /\ commonClass' = r.cc
        /\ cycles' = IF r.outcome = "submitted"
                        THEN Append(cycles, NewCycle(gen, r.data)) ELSE cycles
        /\ subs' = IF r.outcome = "submitted" THEN [subs EXCEPT ![gen] = @ + 1] ELSE subs
        /\ ended' = IF r.outcome \in {"harvestFailed", "threw"}
                       THEN [ended EXCEPT ![gen] = r.outcome] ELSE ended
        /\ last' = r.outcome

\* io's callback (part_004 lines 136-143) with an intersecting entry.
IOIntersectingNoDetect ==
    /\ armed /\ ioLast # "in"
    /\ ioLast' = "in"
    /\ RunProcessCommentsNoDetect
    /\ seen' = TRUE
    /\ UNCHANGED <<tabs, popup, crawl, lastBatch, installs, infoNodes, records, attached, bodyObs, armed,
                   opacity, swapped, cos, timers, gen, items, settled>>

\* One settle timer fires (part_004 lines 168-170).
TimerFireNoDetect ==
    /\ timers > 0
    /\ timers' = timers - 1
    /\ RunProcessCommentsNoDetect
    /\ UNCHANGED <<tabs, popup, crawl, lastBatch, installs, seen, infoNodes, records, attached, bodyObs,
                   armed, ioLast, opacity, swapped, cos, gen, items, settled>>

\* The content script of part_004 lines 1-226 once observeElement has run:
\* the observers, timers and answers of the first variant around the
\* processComments above.
NextNoDetect ==
    \/ IOIntersectingNoDetect
    \/ IONotIntersecting
    \/ \E v \in Opacities : HostFade(v)
    \/ HostReplaceItems
    \/ HostSettle
    \/ TimerFireNoDetect
    \/ \E k \in 1..MaxCycles : ClassifierAnswers(k)
    \/ \E k \in 1..MaxCycles : ClassifierHttpError(k)
    \/ \E k \in 1..MaxCycles : ClassifierUnreachable(k)

SpecNoDetect == InitAnswers /\ [][NextNoDetect]_vars

\* ----------------------------------------------------------- arming runs
\* The start of the content script up to the first visibility reports: the
\* container is either in the document already or attached later.  The host
\* owes the page no further mutation, so its steps carry no fairness; the
\* IntersectionObserver delivers its reports once io.observe has run.
NextArming ==
    \/ HostAttach
    \/ HostBodyMutation
    \/ IOIntersecting
    \/ IONotIntersecting
    \/ \E k \in 1..MaxCycles : ClassifierAnswers(k)

SpecArming == Init /\ [][NextArming]_vars /\ WF_vars(IOIntersecting \/ IONotIntersecting)

\* --------------------------------------------------------- extraction runs
\* The purchase-metadata nodes of the extraction runs: no child, one child,
\* two children, each child with a text of up to MaxTextLen characters.
InfoNodes ==
    {<<>>} \cup {<<t>> : t \in Texts} \cup {<<t, u>> : t \in Texts, u \in Texts}

\* The three items of the end-to-end example; the location-shaped node holds
\* an element without text followed by the line.
VariationItem == <<(<<"12 Jan 2024", " ", "|", " ", "Color: Red, Size: M">>)>>
LocationItem == <<(<<>>), (<<"Kuala Lumpur", " ", "|", " ", "10 Jan 2024">>)>>
DateOnlyItem == <<(<<"08 Jan 2024">>)>>
ExamplePage == <<VariationItem, LocationItem, DateOnlyItem>>
ExamplePages ==
    {p \in SeqsUpTo({VariationItem, LocationItem, DateOnlyItem}, Len(ExamplePage)) : Len(p) >= 1}

\* The rendered set of an extraction run: well-formed items of one class.
ExtractItems(nodes) == [i \in 1..Len(nodes) |-> [shape |-> "ok", cls |-> "A"]]

InitExtract ==
    /\ attached = TRUE
    /\ bodyObs = FALSE
    /\ armed = TRUE
    /\ ioLast = "none"
    /\ opacity = "1"
    /\ swapped = FALSE
    /\ cos = 0
    /\ timers = 0
    /\ gen = 1
    /\ infoNodes \in {<<n>> : n \in InfoNodes} \cup ExamplePages
    /\ items = ExtractItems(infoNodes)
    /\ badges = FreshBadges(items)
    /\ commonClass = DetectCommonClass(items, NoClass)
    /\ cycles = <<>>
    /\ subs = [g \in Gens |-> 0]
    /\ ended = [g \in Gens |-> "none"]
    /\ last = "none"
    /\ settled = 0
    /\ seen = FALSE
    /\ records = NoRecords
    /\ installs = 0
    /\ lastBatch = <<>>
    /\ crawl = NoCrawl
    /\ popup = NoPopup
    /\ tabs = NoTabs

\* One call of getReviews on the rendered set.
ExtractReviews ==
    /\ records = NoRecords
    /\ records' = getReviewsRecords(items, commonClass, infoNodes)
    /\ UNCHANGED <<tabs, popup, crawl, lastBatch, installs, seen, infoNodes, attached, bodyObs, armed, ioLast, opacity, swapped,
                   cos, timers, gen, items, badges, commonClass, cycles, subs, ended,
                   last, settled>>

NextExtract == ExtractReviews

SpecExtract == InitExtract /\ [][NextExtract]_vars

\* ------------------------------------------------- rating and body runs
\* One call of getReviews on a rendered set whose items differ in their
\* rating node and their content block: any row of icons with a fixed block,
\* or any block with a row of five icons.
FiveStars == <<FilledStar, FilledStar, FilledStar, EmptyStar, EmptyStar>>
OneSubreview == [present |-> TRUE, list |-> <<(<<"a", ":", "b">>)>>, body |-> <<"a">>]
BodyNodes ==
    {[stars |-> s, block |-> OneSubreview] : s \in StarRows} \cup
    {[stars |-> FiveStars, block |-> b] : b \in Blocks}
BodyPages ==
    {<<n>> : n \in BodyNodes} \cup
    {<<[stars |-> FiveStars, block |-> NoBlock], n>> :
        n \in {[stars |-> FiveStars, block |-> b] : b \in Blocks}}

InitBody ==
    /\ attached = TRUE
    /\ bodyObs = FALSE
    /\ armed = TRUE
    /\ ioLast = "none"
    /\ opacity = "1"
    /\ swapped = FALSE
    /\ cos = 0
    /\ timers = 0
    /\ gen = 1
    /\ infoNodes \in BodyPages
    /\ items = ExtractItems(infoNodes)
    /\ badges = FreshBadges(items)
    /\ commonClass = DetectCommonClass(items, NoClass)
    /\ cycles = <<>>
    /\ subs = [g \in Gens |-> 0]
    /\ ended = [g \in Gens |-> "none"]
    /\ last = "none"
    /\ settled = 0
    /\ seen = FALSE
    /\ records = NoRecords
    /\ installs = 0
    /\ lastBatch = <<>>
    /\ crawl = NoCrawl
    /\ popup = NoPopup
    /\ tabs = NoTabs

ExtractBodies ==
    /\ records = NoRecords
    /\ records' = getReviewsBodies(items, commonClass, infoNodes)
    /\ UNCHANGED <<tabs, popup, crawl, lastBatch, installs, seen, infoNodes, attached, bodyObs, armed, ioLast, opacity, swapped,
                   cos, timers, gen, items, badges, commonClass, cycles, subs, ended,
                   last, settled>>

NextBody == ExtractBodies

SpecBody == InitBody /\ [][NextBody]_vars

\* ------------------------------------------------------------ definitions

\* Every rendered item carries a badge.
AllBadged == gen >= 1 /\ \A i \in 1..Len(items) : badges[i].st # "none"

\* The batches in flight that were harvested from rendered set g.
InFlight(g) == {k \in DOMAIN cycles : cycles[k].gen = g}

\* A fresh rendered set that processComments harvests and submits: the badge
\* loop does not throw and every selected element is extracted.
CanSubmit(its) ==
    /\ ~BadgeLoop(its, FreshBadges(its), 1, FALSE).threw
    /\ getReviews(its, DetectCommonClass(its, NoClass)).ok

FailedEnds == {"rejected", "httpError", "harvestFailed"}

C4_StaleAnswerDropped ==
    \A i \in 1..Len(items) :
        badges[i].st \in {"nfraud", "yfraud"} => badges[i].sgen = gen

\* C5: after the classification request of the current set failed in
\* transport (rejected fetch, or a non-2xx answer), no badge of the set is
\* still loading.
C5_TransportFailureMarksError ==
    (gen >= 1 /\ ended[gen] \in {"rejected", "httpError"})
        => \A i \in 1..Len(items) : badges[i].st # "loading"

Processed ==
    IF CanSubmit(items) THEN subs[gen] = 1 ELSE ended[gen] \in {"harvestFailed", "threw"}

\* C7: after a failed harvest or a failed submission of an earlier set, a
\* later pagination whose return to opacity 1 was observed is still
\* processed: while the paginated set is rendered, either a settle timer is
\* pending and able to fire, or processComments has run on the set and has
\* submitted it if it can be harvested.
C7_FailureNotFatal ==
    (gen >= 2 /\ settled >= 1 /\ \E h \in 1..(gen - 1) : ended[h] \in FailedEnds)
        => (Processed \/ (timers > 0 /\ ENABLED TimerFire))

\* C7 witness: the cycle of an earlier set failed, and the paginated set was
\* harvested and submitted from its settle timer.
C7_Witness ==
    /\ gen >= 2 /\ settled >= 1 /\ subs[gen] = 1 /\ ioLast = "none"
    /\ \E h \in 1..(gen - 1) : ended[h] \in FailedEnds

\* processComments has just called getReviews on the current rendered set.
Harvested == last \in {"submitted", "harvestFailed"}

\* C8: an item without the expected positional children does not abort the
\* harvest: its index is absent from the mapping, and every other rendered
\* item (an element carrying commonClass with the expected structure) still
\* has its record in the mapping that is submitted.
C8_PerItemIsolation ==
    Harvested =>
        /\ \A k \in InFlight(gen) : \A i \in Range(cycles[k].data) : items[i].shape = "ok"
        /\ \A i \in 1..Len(items) :
              (items[i].shape = "ok" /\ items[i].cls = commonClass)
                  => \E k \in InFlight(gen) : i \in Range(cycles[k].data)

\* C9: the mapping returned for the N elements the harvester enumerates has
\* its keys in 1..N, key j holding the record of the j-th element; an element
\* that failed extraction has no key and the keys of the others are not
\* shifted.
C9_KeysFollowDomOrder ==
    Harvested =>
        \E k \in InFlight(gen) :
            LET d == cycles[k].data
                parent == QuerySelectorAll(items, commonClass, 1)
            IN  /\ DOMAIN d \subseteq 1..Len(parent)
                /\ \A j \in 1..Len(parent) :
                      IF items[parent[j]].shape = "ok"
                         THEN j \in DOMAIN d /\ d[j] = parent[j]
                         ELSE j \notin DOMAIN d

\* C10: the record under key `review i` was extracted from the child of the
\* comment list that holds badge b{i}, and a result shown in badge b{i} of
\* the set it was harvested from is the result of that child's record.
C10_CorrelationKeyAgreement ==
    /\ \A k \in InFlight(gen) : \A key \in DOMAIN cycles[k].data : cycles[k].data[key] = key
    /\ \A i \in 1..Len(items) :
          (badges[i].st \in {"nfraud", "yfraud"} /\ badges[i].sgen = gen) => badges[i].spos = i

\* C11: there is at most one badge element with id b{i} for each index i,
\* after any sequence of loading injections, result updates and error
\* updates: a child has a badge state exactly when it has one such element.
C11_BadgeUniqueness ==
    \A i \in 1..Len(items) : badges[i].n <= 1 /\ (badges[i].n = 1 <=> badges[i].st # "none")

\* C11 witness: a badge that was injected and then updated with a result was
\* met again by the badge loop of a later processComments call.
C11_Witness ==
    /\ last = "suppressed"
    /\ \E i \in 1..Len(items) : badges[i].st \in {"nfraud", "yfraud"} /\ badges[i].n = 1

\* The pagination tracker is armed: ratingsObserver observes the wrapper
\* (installed by observeElement together with io).
TrackerArmed == armed

\* C12: before io has reported the container as intersecting at least once,
\* nothing has been harvested or submitted and the pagination tracker is not
\* armed, whatever the order of visibility events and opacity mutations.
C12_VisibilityGate ==
    ~seen =>
        /\ \A g \in Gens : subs[g] = 0 /\ ended[g] = "none"
        /\ ~TrackerArmed

\* The keys of the response to the batch of the current rendered set: the
\* keys that were harvested and submitted.
ResponseKeys == DOMAIN getReviews(items, commonClass).final

\* C13: once the successful response to the batch of the rendered set has
\* been delivered, every rendered item i whose key `review i` is in the
\* response and that holds badge b{i} shows a result: the badge is no longer
\* loading, its class is nfraud exactly when the prediction it shows is REAL
\* and yfraud exactly when it is FAKE.
C13_ResultShownForEveryKey ==
    (gen >= 1 /\ ended[gen] = "ok") =>
        \A i \in 1..Len(items) :
            (i \in ResponseKeys /\ badges[i].n > 0) =>
                /\ badges[i].st \in {"nfraud", "yfraud"}
                /\ badges[i].st = "nfraud" <=> badges[i].label = "REAL"
                /\ badges[i].st = "yfraud" <=> badges[i].label = "FAKE"

StateClasses == {"loading", "nfraud", "yfraud", "error"}

\* C14: every injected badge element carries exactly one of the state
\* classes loading, nfraud, yfraud, error, whatever prediction value the
\* classifier returned.
C14_BadgeHasStateClass ==
    \A i \in 1..Len(items) : badges[i].n > 0 => badges[i].st \in StateClasses

\* C19: a response whose `predictions` field maps each submitted key
\* directly to its entry is accepted by the response handler: once it has
\* been delivered, badge b{i} of every submitted key shows a result.
C19_FlatResponseAccepted ==
    (gen >= 1 /\ ended[gen] = "flat") =>
        \A i \in 1..Len(items) :
            (i \in ResponseKeys /\ badges[i].n > 0) => badges[i].st \in {"nfraud", "yfraud"}

\* C20: harvested review data is never transmitted out of the browser to a
\* remote host: every batch in flight goes to a host on the user's machine.
C20_LocalProcessing == \A k \in DOMAIN cycles : cycles[k].url \in LocalHosts

\* getReviews has returned a mapping.
Emitted == records.status = "returned"

\* C15: every emitted record is classified into exactly one of the three
\* purchase-metadata shapes, its fields are filled as that shape says, and at
\* most one of item_variation and location is non-empty.
C15_OneShapePerRecord ==
    Emitted =>
        \A k \in DOMAIN records.final :
            LET r == records.final[k]
            IN  /\ r.type \in {"variation", "location", "dateonly"}
                /\ ~(r.item_variation # <<>> /\ r.location # <<>>)
                /\ r.type = "variation" => r.location = <<>>
                /\ r.type = "location" => r.item_variation = <<>>
                /\ r.type = "dateonly" => r.item_variation = <<>> /\ r.location = <<>>

\* C15 witness: a record in location shape was emitted from a node whose
\* children both hold a delimiter, with a non-empty location.
C15_Witness ==
    /\ Emitted /\ Len(infoNodes) = 1 /\ Len(infoNodes[1]) = 2
    /\ Pipes(infoNodes[1][1]) # {} /\ Pipes(infoNodes[1][2]) # {}
    /\ records.final[1].type = "location" /\ records.final[1].location # <<>>

\* The text left of position k and the text right of it.
LeftOf(t, k) == SubSeq(t, 1, k - 1)
RightOf(t, k) == SubSeq(t, k + 1, Len(t))

\* A text up to its first delimiter (the whole text if it has none).
UpToPipe(t) == IF Pipes(t) = {} THEN t ELSE LeftOf(t, FirstPipe(t))

\* The extraction run was on one item: its purchase-metadata node.
TheNode == infoNodes[1]
TheRecord == records.final[1]

C17_SingleChildSplit ==
    (Emitted /\ Len(infoNodes) = 1 /\ Len(TheNode) = 1) =>
        IF Pipes(TheNode[1]) # {}
          THEN /\ \E k \in Pipes(TheNode[1]) :
                     /\ TheRecord.purchase_date = Trim(LeftOf(TheNode[1], k))
                     /\ TheRecord.item_variation = Trim(RightOf(TheNode[1], k))
               /\ TheRecord.location = <<>>
          ELSE /\ TheRecord.purchase_date = Trim(TheNode[1])
               /\ TheRecord.item_variation = <<>>
               /\ TheRecord.location = <<>>

\* C18: the harvest of the three example items (variation-shaped, location-
\* shaped, date-only) returns exactly three records in that order, with
\* item_variation "Color: Red, Size: M" for the first, location
\* "Kuala Lumpur" for the second, and both fields empty for the third.
C18_EndToEndExample ==
    (infoNodes = ExamplePage /\ records # NoRecords) =>
        /\ Emitted
        /\ DOMAIN records.final = 1..3
        /\ records.final[1].item_variation = <<"Color: Red, Size: M">>
        /\ records.final[1].location = <<>>
        /\ records.final[1].purchase_date = <<"12 Jan 2024">>
        /\ records.final[2].location = <<"Kuala Lumpur">>
        /\ records.final[2].item_variation = <<>>
        /\ records.final[2].purchase_date = <<"10 Jan 2024">>
        /\ records.final[3].item_variation = <<>>
        /\ records.final[3].location = <<>>
        /\ records.final[3].purchase_date = <<"08 Jan 2024">>

\* C18 witness: getReviews has returned for the example page.
C18_Witness == infoNodes = ExamplePage /\ Emitted /\ Len(records.final) = Len(ExamplePage)

\* ----------------------------------------------------- pagination tracker
\* The states of the pagination tracker, read off the observers and timers
\* of observeElement: Idle before observeElement has run, ArmedWatching with
\* ratingsObserver alone, PaginationInProgress while a completionObserver is
\* connected, SettledResubmit while a settle timer is pending.
TrackerStates ==
    {st \in {"Idle", "ArmedWatching", "PaginationInProgress", "SettledResubmit"} :
        \/ st = "Idle" /\ ~armed
        \/ st = "ArmedWatching" /\ armed /\ cos = 0 /\ timers = 0
        \/ st = "PaginationInProgress" /\ cos > 0
        \/ st = "SettledResubmit" /\ timers > 0}

\* A step that runs processComments: an intersecting report of io or a
\* settle timer.
Invocation == (ioLast # "in" /\ ioLast' = "in") \/ timers' < timers

\* C24: the tracker is in exactly one of its four states, and at most one
\* completion watcher is connected at a time.
C24_OneCompletionWatcher == Cardinality(TrackerStates) = 1 /\ cos <= 1

\* C26: a step that starts a re-harvest from a settle timer is taken only
\* while the wrapper's opacity is 1.
C26_ReharvestOnlyWhenSettled == [][timers' < timers => opacity = "1"]_vars

\* C28: observeElement runs at most once, and `observer` is disconnected
\* from the callback that ran it on.
C28_ObserveElementOnce == installs <= 1 /\ (installs > 0 => ~bodyObs)

\* C28 witness: observeElement ran when the container was found, and the
\* body was mutated again afterwards (the items were replaced twice over).
C28_Witness == installs = 1 /\ armed /\ gen = MaxPages /\ swapped

\* C29: once the cycle of the rendered set has ended, with no answer, timer
\* or completion watcher outstanding, no badge of the set is still loading.
C29_LoadingLeaves ==
    (gen >= 1 /\ ended[gen] # "none" /\ cycles = <<>> /\ timers = 0 /\ cos = 0)
        => \A i \in 1..Len(items) : badges[i].st # "loading"

\* C30: an invocation of processComments that gives a badge to an item that
\* had none submits the batch, and an invocation is suppressed only if no
\* item lacked a badge.
C30_InjectThenSubmit ==
    [][Invocation =>
          /\ (\E i \in 1..Len(items) : badges[i].st = "none" /\ badges'[i].st # "none")
                => subs'[gen] = subs[gen] + 1
          /\ last' = "suppressed" => \A i \in 1..Len(items) : badges[i].st # "none"]_vars

\* C27: whenever getReviews has run on the rendered set, commonClass is the
\* class of the list's current first child.
C27_FreshCommonClass ==
    (gen >= 1 /\ last \in {"submitted", "harvestFailed"}) => commonClass = items[1].cls

\* A step in which style records were delivered to the observers.
Delivery == <<lastBatch, opacity, cos>>' # <<lastBatch, opacity, cos>>

\* C25: whenever style records are delivered with the opacity back at 1 after
\* it had left 1 (before the batch or within it), a re-harvest is scheduled.
C25_PaginationDetected ==
    [][(Delivery /\ opacity' = "1" /\ (opacity # "1" \/ Range(lastBatch') # {"1"}))
          => timers' > timers]_vars

\* The keys of the running batch of the auto-crawl.
CrawlKeys == DOMAIN crawl.final

\* C22: the auto-crawl clicks "next" at most ClickCap times, whatever the
\* page controller shows.
C22_ClicksCapped == crawl.clicks <= ClickCap

\* C23: a call of getReviews keeps every record of the running batch under
\* its key, adds one record per item of the rendered page it read through,
\* and leaves the keys exactly review 1 .. review total.
C23_RunningBatch ==
    [][crawl'.final # crawl.final =>
          /\ \A k \in CrawlKeys : k \in DOMAIN crawl'.final /\ crawl'.final[k] = crawl.final[k]
          /\ DOMAIN crawl'.final = 1..Cardinality(DOMAIN crawl'.final)
          /\ crawl'.status # "threw" =>
                Cardinality(DOMAIN crawl'.final) = Cardinality(CrawlKeys) + Len(crawl.rendered)]_vars

\* C23 witness: the running batch holds the full first page followed by
\* records of a later page.
C23_Witness ==
    /\ Cardinality(CrawlKeys) > MaxCrawlItems
    /\ \A k \in 1..MaxCrawlItems : crawl.final[k] = [page |-> 1, pos |-> k]
    /\ crawl.final[MaxCrawlItems + 1].page > 1

\* The review texts, and words of them, held in chrome.storage.local.
StoredReviewText ==
    DOMAIN popup.storage.cache
        \cup {popup.storage.history[k].text : k \in DOMAIN popup.storage.history}
        \cup popup.storage.wordFreq

\* C21: the extension's storage holds no review text.
C21_NoReviewTextStored == StoredReviewText = {}

\* The counters and the history of the popup are consistent.
PopupConsistent ==
    /\ popup.fakeDetected <= popup.totalAnalyzed
    /\ popup.cacheHits <= popup.totalAnalyzed
    /\ Len(popup.history) <= HistoryCap

\* C38: the popup's statistics are consistent in every state, a step that
\* analyses a review raises totalAnalyzed by exactly one, and no other step
\* changes it.
C38_StatsConsistent ==
    /\ PopupConsistent
    /\ [][/\ PopupConsistent'
          /\ IF popup'.session # popup.session
                THEN popup'.totalAnalyzed = popup.totalAnalyzed + 1
                ELSE popup'.totalAnalyzed = popup.totalAnalyzed]_vars

\* C38 witness: the history stands at its cap after the analyses of this
\* session pushed older entries out; among them were a genuine verdict and,
\* after a cache clear, a miss followed by a hit.
C38_Witness ==
    /\ popup.session = MaxAnalyses
    /\ Len(popup.history) = HistoryCap
    /\ popup.totalAnalyzed > HistoryCap
    /\ popup.fakeDetected < popup.totalAnalyzed
    /\ popup.cacheHits = 1
    /\ popup.notice = "result"

\* C37: no rendered review (named by its page and position) is held under
\* two keys of the auto-crawl's running batch.
C37_NoDuplicateReviews ==
    \A k1, k2 \in CrawlKeys : crawl.final[k1] = crawl.final[k2] => k1 = k2

\* C31: every result badge of a tab shows a result of a batch that tab
\* submitted, and once the relay has answered a tab's batch no badge of that
\* tab is still loading.
C31_ResultsToSubmittingTab ==
    \A t \in Tabs :
        /\ \A i \in 1..Len(tabs.page[t]) :
              tabs.badges[t][i].st \in {"nfraud", "yfraud"} => tabs.badges[t][i].sgen = t
        /\ t \in tabs.answered =>
              \A i \in 1..Len(tabs.page[t]) : tabs.badges[t][i].st # "loading"

\* A step in which a batch harvested from another rendered set than the
\* current one ends.
OtherCycleEnds ==
    \E k \in DOMAIN cycles : cycles[k].gen # gen /\ cycles' = RemoveAt(cycles, k)

\* C32: a badge that shows a classification result of the current rendered
\* set keeps showing a result for as long as that set is rendered, in every
\* step other than the end of a batch of another rendered set.
C32_ResultNotOverwritten ==
    [][\A i \in 1..Len(items) :
          (badges[i].st \in {"nfraud", "yfraud"} /\ badges[i].sgen = gen
              /\ gen' = gen /\ ~OtherCycleEnds)
            => badges'[i].st \in {"nfraud", "yfraud"}]_vars

\* C32 witness: every badge of the current set shows a result of that set,
\* its cycle has ended, and a later trigger ran processComments.
C32_Witness ==
    /\ gen = MaxPages /\ Len(items) = MaxItems /\ ended[gen] = "ok"
    /\ \A i \in 1..Len(items) : badges[i].st \in {"nfraud", "yfraud"} /\ badges[i].sgen = gen
    /\ last = "suppressed" /\ cycles = <<>>

\* The answer to submission k is applied in this step.
AnswerApplied(k) ==
    /\ k \in DOMAIN cycles
    /\ cycles' = RemoveAt(cycles, k)
    /\ ended'[cycles[k].gen] = "ok"
    /\ ended[cycles[k].gen] # "ok"

\* C33: when a successful response is applied, every rendered item that has
\* a second child node, whose key `review i` is in the response and whose
\* badge is loading leaves the loading state in that step, whatever the
\* children before it in DOM order look like (a child without a second
\* child node, a child whose key the response lacks).
C33_AnswerAppliedPerItem ==
    [][\A k \in DOMAIN cycles : AnswerApplied(k) =>
           \A i \in 1..Len(items) :
               (/\ items[i].shape # "noMain"
                /\ i \in DOMAIN cycles[k].data
                /\ badges[i].st = "loading") =>
                   badges'[i].st \in {"nfraud", "yfraud"}]_vars

\* C34: whenever the comment container is in the document, the visibility
\* watcher is eventually installed on it, in runs where the host makes no
\* further DOM mutation as well.
C34_ArmingGuaranteed == attached ~> armed

\* The number of children of a rating node whose class holds the filled-star
\* marker.
FilledCount(stars) == Cardinality({k \in 1..Len(stars) : stars[k] = FilledStar})

\* C35: the ratings field of every emitted record equals the number of
\* children of the item's rating node whose class contains the filled-star
\* marker, and is an integer in 0..5.
C35_RatingsInRange ==
    Emitted =>
        \A k \in DOMAIN records.final :
            /\ records.final[k].ratings = FilledCount(infoNodes[k].stars)
            /\ records.final[k].ratings \in 0..5

\* The count alone: ratings is the number of filled-star children.
RatingsIsFilledCount ==
    Emitted =>
        \A k \in DOMAIN records.final :
            records.final[k].ratings = FilledCount(infoNodes[k].stars)

\* The item of record k and its content block.
BlockOf(k) == infoNodes[k].block

\* C36: an item without content block has review_content "" and an empty
\* subreview mapping; for an item with a content block, each child of the
\* nested list yields one subreview entry keyed by its position, and for a
\* child whose text holds ":" the category is the text left of the ":" and
\* the content the text right of it (whichever ":" is taken as the
\* delimiter).
C36_ReviewBody ==
    Emitted =>
        \A k \in DOMAIN records.final :
            LET r == records.final[k]
            IN  IF ~BlockOf(k).present
                  THEN r.review_content = <<>> /\ DOMAIN r.subreview = {}
                  ELSE /\ Cardinality(DOMAIN r.subreview) = Len(BlockOf(k).list)
                       /\ \A j \in 1..Len(BlockOf(k).list) :
                             LET text == BlockOf(k).list[j]
                             IN  /\ (j - 1) \in DOMAIN r.subreview
                                 /\ Colons(text) # {} =>
                                       \E c \in Colons(text) :
                                           /\ r.subreview[j - 1].category = LeftOf(text, c)
                                           /\ r.subreview[j - 1].content = RightOf(text, c)

\* The same for the children whose text holds exactly one ":" and for the
\* items without content block.
ReviewBodyOneColon ==
    Emitted =>
        \A k \in DOMAIN records.final :
            LET r == records.final[k]
            IN  IF ~BlockOf(k).present
                  THEN r.review_content = <<>> /\ DOMAIN r.subreview = {}
                  ELSE /\ r.review_content = BlockOf(k).body
                       /\ Cardinality(DOMAIN r.subreview) = Len(BlockOf(k).list)
                       /\ \A j \in 1..Len(BlockOf(k).list) :
                             LET text == BlockOf(k).list[j]
                             IN  /\ (j - 1) \in DOMAIN r.subreview
                                 /\ Cardinality(Colons(text)) = 1 =>
                                       /\ r.subreview[j - 1].category = LeftOf(text, FirstColon(text))
                                       /\ r.subreview[j - 1].content = RightOf(text, FirstColon(text))

====
